---- MODULE Spec2Model ----
(***************************************************************************)
(* A model of baselog.BaseLog (src/src/baselog/baselog.py): the logger     *)
(* set-up done by the constructor, the dispatch of log records to the      *)
(* console and file sinks, the sys.excepthook handler and zeropad_fmt.     *)
(*                                                                         *)
(* Text is modelled as a sequence of tokens.  A token is "\n" (a line      *)
(* boundary), " " (white space) or an opaque chunk of printable text.      *)
(***************************************************************************)
EXTENDS Integers, Sequences, FiniteSets, TLC

VARIABLES
    loggers,           \* logging's registry: name -> [level, handlers]
    stderr,            \* what the console sinks wrote, oldest first
    files,             \* path -> what was appended to the file, oldest first
    dirs,              \* the directories that exist
    excepthook,        \* sys.excepthook: 0 (the platform's) or a BaseLog object
    warningsCaptured,  \* logging.captureWarnings state
    objs,              \* the BaseLog objects, in construction order
    raised,            \* the exception the last operation raised, or None
    lastOp,            \* the last operation: "init", "construct", "log", "hook"
    calls,             \* the root_logger.critical calls of the last hook call
    arg,               \* the arguments of the last hook call
    handledBy,         \* the object whose handler ran the last hook call
    objsAtCall,        \* how many objects existed at the last hook call
    ops,               \* operations done so far
    padCount,          \* zeropad_fmt's argument (SpecPad)
    padIdx,            \* the index rendered with its format (SpecPad)
    padOut             \* the rendered index (SpecPad)

logVars == <<loggers, stderr, files, dirs, excepthook, warningsCaptured, objs,
             raised, lastOp, calls, arg, handledBy, objsAtCall, ops>>
padVars == <<padCount, padIdx, padOut>>
vars == <<loggers, stderr, files, dirs, excepthook, warningsCaptured, objs,
          raised, lastOp, calls, arg, handledBy, objsAtCall, ops,
          padCount, padIdx, padOut>>

----------------------------------------------------------------------------
(* Bounds *)

\* operations (constructions, log calls, hook calls) in one run of Spec
MaxOps == 3
\* hook calls in one run of SpecHook
MaxCalls == 1
\* the largest count given to zeropad_fmt in SpecPad
MaxCount == 111
\* the longest exception text of which every case is tried in SpecHook
MaxTextLen == 2

----------------------------------------------------------------------------
(* Python values *)

None == "<None>"

\* bool(v) of an Optional[str]
Truthy(v) == v # None /\ v # ""

\* v or d
OrDefault(v, d) == IF Truthy(v) THEN v ELSE d

DEFAULT_LOGFMT == "%(asctime)s - %(name)s - %(levelname)s - %(message)s"
DEFAULT_DATEFMT == "%Y-%m-%dT%H:%M:%S%z"

LogLevel == {"DEBUG", "INFO", "WARNING", "ERROR", "CRITICAL"}

\* logging's number of a level name
LevelNo(l) ==
    CASE l = "DEBUG" -> 10
      [] l = "INFO" -> 20
      [] l = "WARNING" -> 30
      [] l = "ERROR" -> 40
      [] l = "CRITICAL" -> 50

----------------------------------------------------------------------------
(* zeropad_fmt *)

\* abs(x)
Abs(x) == IF x < 0 THEN 0 - x ELSE x

\* int(math.log10(x)) for x >= 1: the largest k with 10^k <= x
RECURSIVE IntLog10(_)
IntLog10(x) == IF x < 10 THEN 0 ELSE 1 + IntLog10(x \div 10)

\* a faulty variant: the digits of the largest index maxval - 1
zeropad_len_index(maxval) ==
    IF maxval <= 1 THEN 1 ELSE 1 + IntLog10(maxval - 1)

\* the length zeropad_fmt puts in its format
zeropad_len(maxval) ==
    IF maxval = 0
    THEN 1
    ELSE (IF maxval > 0 THEN 1 ELSE 2) + IntLog10(Abs(maxval))

\* the format "%0{length}d"
zeropad_fmt(maxval) == [flag |-> "0", width |-> zeropad_len(maxval), conv |-> "d"]

\* the decimal digits of n >= 0, most significant first
RECURSIVE Digits(_)
Digits(n) == IF n < 10 THEN <<n>> ELSE Append(Digits(n \div 10), n % 10)

\* k zeros
RECURSIVE Zeros(_)
Zeros(k) == IF k <= 0 THEN <<>> ELSE <<0>> \o Zeros(k - 1)

\* fmt % i for i >= 0: at least fmt.width digits, zero-filled, never cut
Render(fmt, i) ==
    LET d == Digits(i)
    IN  IF Len(d) >= fmt.width THEN d ELSE Zeros(fmt.width - Len(d)) \o d

\* the number a digit string reads as
RECURSIVE DigitsToNat(_)
DigitsToNat(d) ==
    IF d = <<>> THEN 0
    ELSE 10 * DigitsToNat(SubSeq(d, 1, Len(d) - 1)) + d[Len(d)]

----------------------------------------------------------------------------
(* Text *)

\* the lines of s from position i on, cur being the line read so far
RECURSIVE splitlines_from(_, _, _)
splitlines_from(s, i, cur) ==
    IF i > Len(s)
    THEN (IF cur = <<>> THEN <<>> ELSE <<cur>>)
    ELSE IF s[i] = "\n"
         THEN <<cur>> \o splitlines_from(s, i + 1, <<>>)
         ELSE splitlines_from(s, i + 1, Append(cur, s[i]))

\* a faulty variant: an empty text is one empty line
splitlines_one_empty(s) == IF s = <<>> THEN << <<>> >> ELSE splitlines_from(s, 1, <<>>)

\* a faulty variant: empty lines are dropped
splitlines_no_empty(s) == SelectSeq(splitlines_from(s, 1, <<>>), LAMBDA l : l # <<>>)

\* str.splitlines(): the lines of s without their line boundaries; a last
\* line needs no boundary, and a text that ends in one has no further line
splitlines(s) == splitlines_from(s, 1, <<>>)

\* str.rstrip(): the line without its trailing white space
RECURSIVE rstrip(_)
rstrip(line) ==
    IF line # <<>> /\ line[Len(line)] \in {" ", "\n"}
    THEN rstrip(SubSeq(line, 1, Len(line) - 1))
    ELSE line

\* itertools.chain(*[frame.splitlines() for frame in frames])
RECURSIVE chain_lines(_)
chain_lines(frames) ==
    IF frames = <<>> THEN <<>>
    ELSE splitlines(Head(frames)) \o chain_lines(Tail(frames))

\* a faulty variant: one line for each frame
RECURSIVE first_lines(_)
first_lines(frames) ==
    IF frames = <<>> THEN <<>>
    ELSE LET ls == splitlines(Head(frames))
         IN  (IF ls = <<>> THEN <<>> ELSE <<ls[1]>>) \o first_lines(Tail(frames))

\* the lines of the rendered frames, in order
tb_lines_of(frames) == chain_lines(frames)

----------------------------------------------------------------------------
(* The sinks: logging.Logger and its handlers, as set up by setup_loggers *)

LoggerNames == {"app", "lib"}

\* Formatter.format: the line a handler writes for a record
FormatLine(h, record) ==
    [fmt |-> h.fmt, datefmt |-> h.datefmt, name |-> record.name,
     levelname |-> record.levelname, message |-> record.message]

\* Handler level filter: record.levelno >= hdlr.level
sink_accepts(h, levelname) == LevelNo(levelname) >= LevelNo(h.level)

\* what a stream holds: the line, and the handler that wrote it
Entry(h, record) == [by |-> <<h.owner, h.kind>>, line |-> FormatLine(h, record)]

\* where a StreamHandler() writes: sys.stderr
StderrPath == <<"<stderr>", "">>

\* the handlers among hs that write to the stream at path and accept the
\* level, in the order attached
Accepting(hs, path, levelname) ==
    SelectSeq(hs, LAMBDA h : h.path = path /\ sink_accepts(h, levelname))

\* Logger.callHandlers for each of the records in turn, all of one level:
\* what gets appended to one stream is, record by record, the line of each
\* accepting handler
Written(hs, path, levelname, records) ==
    LET acc == Accepting(hs, path, levelname)
        n == Len(acc)
    IN  [k \in 1..(Len(records) * n) |->
            Entry(acc[((k - 1) % n) + 1], records[((k - 1) \div n) + 1])]

\* Logger.log(level, msg, *args) for each message in turn: a record is
\* dropped when the logger is not enabled for its level, else handed to
\* the handlers
logger_log(lgs, name, levelname, messages, err, fs) ==
    LET records == [i \in 1..Len(messages) |->
                       [name |-> name, levelname |-> levelname, message |-> messages[i]]]
        hs == lgs[name].handlers
    IN  IF LevelNo(levelname) >= LevelNo(lgs[name].level)
        THEN [stderr |-> err \o Written(hs, StderrPath, levelname, records),
              files |-> [p \in DOMAIN fs |-> fs[p] \o Written(hs, p, levelname, records)]]
        ELSE [stderr |-> err, files |-> fs]

----------------------------------------------------------------------------
(* The file system the constructor meets *)

\* the directories that exist at start: "logs" is writable, "ro" is not
InitDirs == {"logs", "ro"}

\* os.makedirs(d) succeeds ("new") or raises OSError ("deny", "")
Creatable(d) == d = "new"

\* open(path, "a") raises OSError: no write permission on the directory, or
\* the file name names a directory that does not exist
Unopenable(path) == path[1] = "ro" \/ path[2] = "no/such.log"

\* os.path.join(log_dir, log_file_name)
PathJoin(d, f) == <<d, f>>

\* f"{root_name}_{time.strftime(file_datefmt)}.log", within one clock second
DerivedFileName(root_name, file_datefmt) == root_name \o "_" \o file_datefmt \o ".log"

----------------------------------------------------------------------------
(* BaseLog.__init__ and setup_loggers *)

Unset == "<unset>"

\* __init__: the attributes before setup_loggers runs; a holds the
\* arguments after root_name, under the parameters' names
NewObj(root_name, a) ==
    [root_name |-> root_name,
     log_dir |-> a.log_dir,
     log_file_name |-> a.log_file_name,
     log_file |-> Unset,
     console_log_level |-> a.console_log_level,
     console_logfmt |-> OrDefault(a.console_logfmt, DEFAULT_LOGFMT),
     console_datefmt |-> OrDefault(a.console_datefmt, DEFAULT_DATEFMT),
     file_log_level |-> a.file_log_level,
     file_logfmt |-> OrDefault(a.file_logfmt, DEFAULT_LOGFMT),
     file_datefmt |-> OrDefault(a.file_datefmt, DEFAULT_DATEFMT),
     done |-> FALSE]

\* a faulty variant: the dispatcher filters at the console level
dispatcher_level_console(obj) == obj.console_log_level

\* root_logger.setLevel(logging.DEBUG)
dispatcher_level(obj) == "DEBUG"

\* the StreamHandler of the object
console_handler(self, obj) ==
    [kind |-> "console", owner |-> self, level |-> obj.console_log_level,
     fmt |-> obj.console_logfmt, datefmt |-> obj.console_datefmt, path |-> StderrPath]

\* a faulty variant: the file sink ignores file_logfmt
file_handler_default_format(self, obj) ==
    [kind |-> "file", owner |-> self, level |-> obj.file_log_level,
     fmt |-> DEFAULT_LOGFMT, datefmt |-> obj.file_datefmt, path |-> obj.log_file]

\* the FileHandler of the object, once log_file is set
file_handler(self, obj) ==
    [kind |-> "file", owner |-> self, level |-> obj.file_log_level,
     fmt |-> obj.file_logfmt, datefmt |-> obj.file_datefmt, path |-> obj.log_file]

\* a faulty variant: a hook already installed is kept
install_hook_keep_first(self, hook) == IF hook = 0 THEN self ELSE hook

\* sys.excepthook = self.handle_uncaught_exception
install_hook(self, hook) == self

\* a faulty variant: a file sink only when a file name is given
file_wanted_named(obj) == Truthy(obj.log_dir) /\ Truthy(obj.log_file_name)

\* if self.log_dir:
file_wanted(obj) == Truthy(obj.log_dir)

\* open(path, "a"): the file is created when absent, and kept when present
open_append(fs, path) ==
    IF path \in DOMAIN fs THEN fs ELSE (path :> <<>>) @@ fs

\* setup_loggers on object self: the state it leaves, and whether it raised
setup_loggers(self, obj) ==
    LET name == obj.root_name
        lgs1 == [loggers EXCEPT ![name] =
                    [level |-> dispatcher_level(obj),
                     handlers |-> Append(@.handlers, console_handler(self, obj))]]
        hook1 == install_hook(self, excepthook)
        fname == IF ~Truthy(obj.log_file_name)
                 THEN DerivedFileName(obj.root_name, obj.file_datefmt)
                 ELSE obj.log_file_name
        path == PathJoin(obj.log_dir, fname)
        obj1 == [obj EXCEPT !.log_file_name = fname, !.log_file = path]
    IN  IF ~file_wanted(obj)
        THEN [loggers |-> lgs1, excepthook |-> hook1, dirs |-> dirs, files |-> files,
              obj |-> [obj EXCEPT !.done = TRUE], raised |-> None]
        ELSE IF obj.log_dir \notin dirs /\ ~Creatable(obj.log_dir)
        THEN [loggers |-> lgs1, excepthook |-> hook1, dirs |-> dirs, files |-> files,
              obj |-> obj, raised |-> "OSError"]
        ELSE IF Unopenable(path)
        THEN [loggers |-> lgs1, excepthook |-> hook1,
              dirs |-> dirs \cup {obj.log_dir}, files |-> files,
              obj |-> obj1, raised |-> "OSError"]
        ELSE [loggers |-> [lgs1 EXCEPT ![name].handlers =
                              Append(@, file_handler(self, obj1))],
              excepthook |-> hook1,
              dirs |-> dirs \cup {obj.log_dir},
              files |-> open_append(files, path),
              obj |-> [obj1 EXCEPT !.done = TRUE], raised |-> None]

\* BaseLog(root_name, log_dir, ...): __init__ then setup_loggers
Construct(root_name, a) ==
    LET self == Len(objs) + 1
        r == setup_loggers(self, NewObj(root_name, a))
    IN  /\ loggers' = r.loggers
        /\ excepthook' = r.excepthook
        /\ warningsCaptured' = TRUE
        /\ dirs' = r.dirs
        /\ files' = r.files
        /\ objs' = Append(objs, r.obj)
        /\ raised' = r.raised
        /\ lastOp' = "construct"
        /\ ops' = ops + 1
        /\ UNCHANGED <<stderr, calls, arg, handledBy, objsAtCall>>
        /\ UNCHANGED padVars

----------------------------------------------------------------------------
(* Logging through a BaseLog object *)

PlainMessage(text) == [kind |-> "plain", index |-> <<>>, text |-> text]

\* obj.debug / info / warning / error / critical (msg), forwarded by
\* __getattr__ to root_logger
Log(c, levelname, text) ==
    /\ c \in 1..Len(objs)
    /\ objs[c].done
    /\ LET o == logger_log(loggers, objs[c].root_name, levelname,
                           <<PlainMessage(text)>>, stderr, files)
       IN  /\ stderr' = o.stderr
           /\ files' = o.files
    /\ arg' = [name |-> objs[c].root_name, levelname |-> levelname,
               message |-> PlainMessage(text)]
    /\ raised' = None
    /\ lastOp' = "log"
    /\ ops' = ops + 1
    /\ UNCHANGED <<loggers, dirs, excepthook, warningsCaptured, objs, calls,
                   handledBy, objsAtCall>>
    /\ UNCHANGED padVars

----------------------------------------------------------------------------
(* handle_uncaught_exception *)

\* traceback.format_exception(exception_type, exception, _traceback): a
\* heading, one string for each stack entry (its place and, when the source
\* is at hand, the source line), and the exception's own string
RECURSIVE StackEntries(_, _)
StackEntries(depth, src) ==
    IF depth = 0 THEN <<>>
    ELSE Append(StackEntries(depth - 1, src),
                <<"  ", "File", "\n">> \o (IF src THEN <<"    ", "code", " ", "\n">> ELSE <<>>))

format_exception(exception_type, exception, tb) ==
    << <<"Traceback (most recent call last):", "\n">> >>
    \o StackEntries(tb.depth, tb.src)
    \o << (IF exception.text = <<>>
           THEN <<exception_type>>
           ELSE <<exception_type, ":", " ">> \o exception.text) \o <<"\n">> >>

\* _traceback is None
NoTraceback == [depth |-> 0, src |-> FALSE]

\* the calls root_logger.critical(log_msg, i, line.rstrip()) of one loop
NumberedLines(kind, lines) ==
    [i \in 1..Len(lines) |->
        [kind |-> kind,
         index |-> Render(zeropad_fmt(Len(lines)), i - 1),
         text |-> rstrip(lines[i])]]

\* the messages the handler logs, in order, when nothing raises
HandlerMessages(exception_type, exception, tb) ==
    << [kind |-> "uncaught", index |-> <<>>, text |-> <<exception_type>>] >>
    \o NumberedLines("exception", splitlines(exception.text))
    \o (IF tb # NoTraceback
        THEN NumberedLines("traceback",
                 tb_lines_of(format_exception(exception_type, exception, tb)))
        ELSE <<>>)

\* str(exception) raises when the exception's __str__ does
str_raises(exception) == ~exception.str_ok

\* sys.excepthook(exception_type, exception, _traceback), the hook being a
\* BaseLog object's handler
Invoke(exception_type, exception, tb) ==
    /\ excepthook # 0
    /\ \E msgs \in {IF str_raises(exception)   \* the one value, computed once
                    THEN << [kind |-> "uncaught", index |-> <<>>,
                             text |-> <<exception_type>>] >>
                    ELSE HandlerMessages(exception_type, exception, tb)} :
         LET self == excepthook
             name == objs[self].root_name
             o == logger_log(loggers, name, "CRITICAL", msgs, stderr, files)
         IN  /\ calls' = [i \in 1..Len(msgs) |->
                           [name |-> name, levelname |-> "CRITICAL", message |-> msgs[i]]]
             /\ stderr' = o.stderr
             /\ files' = o.files
             /\ handledBy' = self
             /\ raised' = IF str_raises(exception) THEN "Exception" ELSE None
    /\ arg' = [exception_type |-> exception_type, exception |-> exception, tb |-> tb]
    /\ objsAtCall' = Len(objs)
    /\ lastOp' = "hook"
    /\ ops' = ops + 1
    /\ UNCHANGED <<loggers, dirs, excepthook, warningsCaptured, objs>>
    /\ UNCHANGED padVars

----------------------------------------------------------------------------
(* The start: a process that has imported logging and made no BaseLog *)

\* a logger without a level of its own takes the root logger's, WARNING
InitLog ==
    /\ loggers = [n \in LoggerNames |-> [level |-> "WARNING", handlers |-> <<>>]]
    /\ stderr = <<>>
    /\ files = <<>>
    /\ dirs = InitDirs
    /\ excepthook = 0
    /\ warningsCaptured = FALSE
    /\ objs = <<>>
    /\ raised = None
    /\ lastOp = "init"
    /\ calls = <<>>
    /\ arg = None
    /\ handledBy = 0
    /\ objsAtCall = 0
    /\ ops = 0

InitPad ==
    /\ padCount = 0
    /\ padIdx = -1
    /\ padOut = <<>>

Init == InitLog /\ InitPad

----------------------------------------------------------------------------
(* Spec: constructions, log calls and hook calls, MaxOps operations *)

Custom == "custom"

\* the constructor arguments tried for the logger "app": every kind of
\* directory with the default file name, levels and formats; then, with an
\* existing or creatable directory, the file names, the levels, the formats
Setups ==
    {[log_dir |-> d, log_file_name |-> None,
      console_log_level |-> "DEBUG", file_log_level |-> "DEBUG",
      console_logfmt |-> None, console_datefmt |-> None,
      file_logfmt |-> None, file_datefmt |-> None] :
        d \in {None, "", "logs", "new", "deny", "ro"}}
    \cup
    {[log_dir |-> p[1], log_file_name |-> p[2],
      console_log_level |-> "DEBUG", file_log_level |-> "DEBUG",
      console_logfmt |-> None, console_datefmt |-> None,
      file_logfmt |-> None, file_datefmt |-> None] :
        p \in {<<"logs", "app.log">>, <<"new", "no/such.log">>}}
    \cup
    {[log_dir |-> "logs", log_file_name |-> None,
      console_log_level |-> l[1], file_log_level |-> l[2],
      console_logfmt |-> None, console_datefmt |-> None,
      file_logfmt |-> None, file_datefmt |-> None] :
        l \in {<<"INFO", "ERROR">>, <<"ERROR", "DEBUG">>}}
    \cup
    {[log_dir |-> "logs", log_file_name |-> None,
      console_log_level |-> "DEBUG", file_log_level |-> "DEBUG",
      console_logfmt |-> f[1], console_datefmt |-> f[2],
      file_logfmt |-> f[3], file_datefmt |-> f[4]] :
        f \in {<<Custom, "", Custom, None>>, <<None, None, None, Custom>>}}

\* and for the logger "lib"
LibSetups == {s \in Setups : /\ s.log_dir \in {None, "logs"}
                             /\ s.log_file_name = None
                             /\ s.console_log_level = "DEBUG"
                             /\ s.console_logfmt = None
                             /\ s.file_datefmt = None}

DoConstruct ==
    /\ ops < MaxOps
    /\ \E n \in LoggerNames :
         \E s \in (IF n = "app" THEN Setups ELSE LibSetups) : Construct(n, s)

DoLog ==
    /\ ops < MaxOps
    /\ \E c \in 1..Len(objs), l \in LogLevel : Log(c, l, <<"m">>)

DoHook ==
    /\ ops < MaxOps
    /\ \E t \in {<<"a">>, <<"a", " ", "\n", "b">>} :
          Invoke("ValueError", [str_ok |-> TRUE, text |-> t], NoTraceback)

Next == DoConstruct \/ DoLog \/ DoHook

Spec == Init /\ [][Next]_vars

----------------------------------------------------------------------------
(* SpecHook: one BaseLog object, then MaxCalls uncaught exceptions *)

Tokens == {"a", " ", "\n"}

\* every text of up to n tokens
RECURSIVE TextsUpTo(_)
TextsUpTo(n) ==
    IF n = 0 THEN {<<>>}
    ELSE LET shorter == TextsUpTo(n - 1)
         IN  shorter \cup {Append(t, k) : t \in shorter, k \in Tokens}

\* k lines "a \n"
RECURSIVE LinesText(_)
LinesText(k) == IF k = 0 THEN <<>> ELSE <<"a", " ", "\n">> \o LinesText(k - 1)

\* the exceptions raised: every short text, texts of ten and eleven lines,
\* and an exception whose __str__ raises
Exceptions ==
    {[str_ok |-> TRUE, text |-> t] : t \in TextsUpTo(MaxTextLen)}
    \cup {[str_ok |-> TRUE, text |-> LinesText(k)] : k \in {10, 11}}
    \cup {[str_ok |-> FALSE, text |-> <<>>]}

\* the tracebacks: none, or a stack of some depth, with or without source
Tracebacks ==
    {NoTraceback, [depth |-> 1, src |-> TRUE], [depth |-> 4, src |-> TRUE],
     [depth |-> 5, src |-> FALSE]}

HookSetups == {s \in Setups : /\ s.log_dir \in {None, "logs"}
                              /\ s.log_file_name = None
                              /\ s.console_logfmt = None
                              /\ s.file_datefmt = None}

HookConstruct ==
    /\ objs = <<>>
    /\ \E s \in HookSetups : Construct("app", s)

HookCall ==
    /\ ops - Len(objs) < MaxCalls
    /\ \E e \in Exceptions, tb \in Tracebacks : Invoke("ValueError", e, tb)

NextHook == HookConstruct \/ HookCall

SpecHook == Init /\ [][NextHook]_vars

----------------------------------------------------------------------------
(* SpecPad: zeropad_fmt of every count up to MaxCount, and every index    *)
(* below the count rendered with the format                               *)

InitPadAny ==
    /\ padCount \in 0..MaxCount
    /\ padIdx = -1
    /\ padOut = <<>>

PadRender ==
    /\ padIdx + 1 < padCount
    /\ padIdx' = padIdx + 1
    /\ padOut' = Render(zeropad_fmt(padCount), padIdx + 1)
    /\ UNCHANGED padCount
    /\ UNCHANGED logVars

InitPadRun == InitLog /\ InitPadAny

NextPad == PadRender

SpecPad == InitPadRun /\ [][NextPad]_vars

----------------------------------------------------------------------------
(* Definitions the properties use *)

\* the positions of the line boundaries of a text
Boundaries(text) == {i \in 1..Len(text) : text[i] = "\n"}

\* how many lines a text has: one for each boundary, and one more when
\* text follows the last boundary
LineCount(text) ==
    Cardinality(Boundaries(text))
    + (IF text # <<>> /\ text[Len(text)] # "\n" THEN 1 ELSE 0)

\* the k-th boundary of a text
NthBoundary(text, k) ==
    CHOOSE b \in Boundaries(text) :
        Cardinality({x \in Boundaries(text) : x <= b}) = k

\* the k-th line of a text, 1 <= k <= LineCount(text)
LineOf(text, k) ==
    LET first == IF k = 1 THEN 1 ELSE NthBoundary(text, k - 1) + 1
        last == IF k <= Cardinality(Boundaries(text))
                THEN NthBoundary(text, k) - 1
                ELSE Len(text)
    IN  SubSeq(text, first, last)

\* the lines of the first j frames, counted
RECURSIVE LinesUpTo(_, _)
LinesUpTo(frames, j) ==
    IF j = 0 THEN 0 ELSE LinesUpTo(frames, j - 1) + LineCount(frames[j])

\* the k-th line of the frames laid end to end
FlatLine(frames, k) ==
    LET f == CHOOSE j \in 1..Len(frames) :
                 LinesUpTo(frames, j - 1) < k /\ k <= LinesUpTo(frames, j)
    IN  LineOf(frames[f], k - LinesUpTo(frames, f - 1))

\* a line without the white space at its end
Stripped(line) ==
    LET keep == {i \in 1..Len(line) : line[i] # " "}
    IN  IF keep = {} THEN <<>>
        ELSE SubSeq(line, 1, CHOOSE i \in keep : \A j \in keep : j <= i)

\* a is b with some of its elements left out
RECURSIVE IsSubseq(_, _)
IsSubseq(a, b) ==
    IF a = <<>> THEN TRUE
    ELSE IF b = <<>> THEN FALSE
    ELSE IF Head(a) = Head(b) THEN IsSubseq(Tail(a), Tail(b))
    ELSE IsSubseq(a, Tail(b))

\* the lines of a sequence of stream entries
LinesOf(entries) == [i \in 1..Len(entries) |-> entries[i].line]

\* the stream a handler writes to, given the streams
StreamOf(h, err, fs) == IF h.kind = "console" THEN err ELSE fs[h.path]

\* the lines a handler wrote, given the streams
LinesBy(h, err, fs) ==
    LinesOf(SelectSeq(StreamOf(h, err, fs), LAMBDA e : e.by = <<h.owner, h.kind>>))

\* the handlers of kind k that object c attached to its logger
SinksOf(c, k) ==
    LET hs == loggers[objs[c].root_name].handlers
    IN  {i \in DOMAIN hs : hs[i].owner = c /\ hs[i].kind = k}

HasSink(c, k) == SinksOf(c, k) # {}

\* the lines object c's console sink wrote
ConsoleLines(c) ==
    LinesOf(SelectSeq(stderr, LAMBDA e : e.by = <<c, "console">>))

\* every line in object c's log file
FileLines(c) == LinesOf(files[objs[c].log_file])

\* 10, 100, 1000, ...
IsPowerOfTen(c) ==
    LET d == Digits(c)
    IN  c >= 10 /\ d[1] = 1 /\ \A i \in 2..Len(d) : d[i] = 0

\* the last operation was a hook call that returned
HookDone == lastOp = "hook" /\ raised = None

\* the calls of the last hook call from position i on
CallsFrom(i) == SubSeq(calls, i, Len(calls))

----------------------------------------------------------------------------
(* zeropad_fmt (SpecPad) *)

\* C1 as stated: the width zeropad_fmt computes for a count c is the number
\* of digits of the largest index c - 1: 1 when c <= 1, else
\* 1 + floor(log10(c - 1)); so count 10 gives width 1.
C1_WidthOfLargestIndex ==
    zeropad_fmt(padCount).width
        = (IF padCount <= 1 THEN 1 ELSE Len(Digits(padCount - 1)))

\* C1 amended: the width is the number of digits of the count c itself (1
\* for c = 0).  Every index below c is rendered in exactly that many digits
\* and reads back as the index, so nothing is cut; the width is that of the
\* largest index except when c is a power of ten, where it is one more.
C1_WidthOfCount ==
    LET w == zeropad_fmt(padCount).width
    IN  /\ w = Len(Digits(padCount))
        /\ w = (IF padCount <= 1 THEN 1 ELSE Len(Digits(padCount - 1)))
               + (IF IsPowerOfTen(padCount) THEN 1 ELSE 0)
        /\ padIdx >= 0 => /\ Len(padOut) = w
                          /\ DigitsToNat(padOut) = padIdx

\* count 10: the largest index 9 is rendered "09"
C1_Witness == padCount = 10 /\ padIdx = 9 /\ padOut = <<0, 9>>

----------------------------------------------------------------------------
(* handle_uncaught_exception (SpecHook) *)

\* C4: a hook call with a message of n >= 1 lines and no traceback makes
\* exactly 1 + n log calls, all CRITICAL: the "uncaught <type> exception:"
\* line, then for i = 0..n-1 the line "exception L<i>: <line i>", in the
\* order of the message, and no "traceback" line.
C4_NoTraceLines ==
    (/\ HookDone
     /\ arg.tb = NoTraceback
     /\ LineCount(arg.exception.text) >= 1)
    => LET text == arg.exception.text
           n == LineCount(text)
       IN  /\ Len(calls) = 1 + n
           /\ \A i \in 1..Len(calls) :
                 /\ calls[i].levelname = "CRITICAL"
                 /\ calls[i].message.kind # "traceback"
           /\ calls[1].message.kind = "uncaught"
           /\ calls[1].message.text = <<arg.exception_type>>
           /\ \A i \in 1..n :
                 /\ calls[i + 1].message.kind = "exception"
                 /\ DigitsToNat(calls[i + 1].message.index) = i - 1
                 /\ calls[i + 1].message.text = Stripped(LineOf(text, i))

\* an eleven-line message: the header, then L00 .. L10
C4_Witness ==
    /\ HookDone
    /\ arg.tb = NoTraceback
    /\ LineCount(arg.exception.text) = 11
    /\ Len(calls) = 12
    /\ calls[2].message.index = <<0, 0>>
    /\ calls[12].message.index = <<1, 0>>
    /\ calls[12].message.text = <<"a">>

\* C5: a hook call with a traceback makes, after the "exception" lines,
\* exactly m "traceback L<i>: <line>" calls at CRITICAL, m being the number
\* of lines of the rendered frames laid end to end; the lines keep that
\* order, i runs 0..m-1, and every index has the same width, the one
\* zeropad_fmt computes from m.
C5_TraceLines ==
    (HookDone /\ arg.tb # NoTraceback)
    => LET n == LineCount(arg.exception.text)
           frames == format_exception(arg.exception_type, arg.exception, arg.tb)
           m == LinesUpTo(frames, Len(frames))
           tb == CallsFrom(n + 2)
       IN  /\ Len(calls) = 1 + n + m
           /\ \A i \in 2..(n + 1) : calls[i].message.kind = "exception"
           /\ \A i \in 1..m :
                 /\ tb[i].levelname = "CRITICAL"
                 /\ tb[i].message.kind = "traceback"
                 /\ DigitsToNat(tb[i].message.index) = i - 1
                 /\ Len(tb[i].message.index) = Len(tb[1].message.index)
                 /\ Len(tb[i].message.index) = zeropad_fmt(m).width
                 /\ tb[i].message.text = Stripped(FlatLine(frames, i))

\* a stack of four entries with their source lines under a one-line
\* message: ten traceback lines, L00 .. L09
C5_Witness ==
    /\ HookDone
    /\ arg.tb = [depth |-> 4, src |-> TRUE]
    /\ arg.exception.text = <<"a">>
    /\ Len(calls) = 12
    /\ calls[3].message = [kind |-> "traceback", index |-> <<0, 0>>,
                           text |-> <<"Traceback (most recent call last):">>]
    /\ calls[12].message = [kind |-> "traceback", index |-> <<0, 9>>,
                            text |-> <<"ValueError", ":", " ", "a">>]

\* C8: the hook never raises, whatever the exception and the traceback.
C8_HandlerNeverRaises == lastOp = "hook" => raised = None

\* C9 as stated: for an exception whose string is empty the hook logs,
\* after the header, exactly one line "exception L0: " with an empty text.
C9_EmptyIsOneLine ==
    (HookDone /\ arg.exception.text = <<>>)
    => /\ Len(calls) >= 2
       /\ calls[2].message = [kind |-> "exception", index |-> <<0>>, text |-> <<>>]
       /\ \A i \in 3..Len(calls) : calls[i].message.kind # "exception"

\* C9 amended: for an exception whose string is empty the hook logs no
\* "exception" line at all: the header is followed by the traceback lines,
\* or by nothing when there is no traceback.
C9_EmptyIsNoLine ==
    (HookDone /\ arg.exception.text = <<>>)
    => /\ Len(calls) >= 1
       /\ calls[1].message.kind = "uncaught"
       /\ \A i \in 2..Len(calls) : calls[i].message.kind = "traceback"
       /\ arg.tb = NoTraceback => Len(calls) = 1

\* an empty message and no traceback: the header alone reached the sinks
C9_Witness ==
    /\ HookDone
    /\ arg.exception.text = <<>>
    /\ arg.tb = NoTraceback
    /\ Len(calls) = 1
    /\ Len(stderr) = 1

----------------------------------------------------------------------------
(* The sinks, the hook slot and failed constructions (Spec) *)

\* the records the step handed to a logger: the one of a log call, or the
\* CRITICAL calls of a hook call
Emitted(op, a, cs) == IF op = "log" THEN <<a>> ELSE cs

\* C2: a record of severity s is written to a sink if and only if s is at
\* or above that sink's own level: in every step that logs, each handler of
\* the logger written to gains exactly the lines of the records at or above
\* its level, in order, whatever the other handlers' levels; the dispatcher
\* drops nothing, and no other handler gains a line.
C2_EachSinkFiltersAlone ==
    [][ (lastOp' \in {"log", "hook"} /\ ops' # ops)
        => \A n \in LoggerNames :
             \A i \in DOMAIN loggers[n].handlers :
                LET h == loggers[n].handlers[i]
                    em == Emitted(lastOp', arg', calls')
                    due == SelectSeq(em, LAMBDA r :
                              r.name = n /\ LevelNo(r.levelname) >= LevelNo(h.level))
                IN  LinesBy(h, stderr', files')
                        = LinesBy(h, stderr, files)
                          \o [k \in 1..Len(due) |-> FormatLine(h, due[k])]
      ]_vars

\* an object with both sinks whose file sink wrote a record that its
\* console sink dropped
C2_Witness ==
    /\ lastOp = "log"
    /\ \E c \in 1..Len(objs) :
          /\ objs[c].done
          /\ HasSink(c, "file")
          /\ LevelNo(arg.levelname) < LevelNo(objs[c].console_log_level)
          /\ ConsoleLines(c) = <<>>
          /\ \E k \in DOMAIN files[objs[c].log_file] :
                /\ files[objs[c].log_file][k].by = <<c, "file">>
                /\ files[objs[c].log_file][k].line.levelname = arg.levelname

\* C3 as stated: when a directory is given the log file exists once the
\* object is constructed, and every line its console sink wrote is in the
\* file too, verbatim and in the same order.
C3_ConsoleLinesInFile ==
    \A c \in 1..Len(objs) :
        (objs[c].done /\ Truthy(objs[c].log_dir))
        => /\ objs[c].log_file \in DOMAIN files
           /\ IsSubseq(ConsoleLines(c), FileLines(c))

\* C3 amended: the same, for an object whose file level is at or below its
\* console level and whose two sinks have the same format and date format.
C3_ConsoleLinesInFileSameSetup ==
    \A c \in 1..Len(objs) :
        (/\ objs[c].done
         /\ Truthy(objs[c].log_dir)
         /\ LevelNo(objs[c].file_log_level) <= LevelNo(objs[c].console_log_level)
         /\ objs[c].file_logfmt = objs[c].console_logfmt
         /\ objs[c].file_datefmt = objs[c].console_datefmt)
        => /\ objs[c].log_file \in DOMAIN files
           /\ IsSubseq(ConsoleLines(c), FileLines(c))

\* an object with the same custom format on both sinks, after a hook call:
\* its console lines are in its file, in order
C3_Witness ==
    \E c \in 1..Len(objs) :
        /\ objs[c].done
        /\ HasSink(c, "file")
        /\ objs[c].console_logfmt = Custom
        /\ objs[c].file_logfmt = Custom
        /\ Len(ConsoleLines(c)) >= 3
        /\ ConsoleLines(c) = FileLines(c)

\* C6 as stated: a constructed object has a console sink, and has a file
\* sink if and only if its directory is not None (an empty string counts
\* as a directory).
C6_FileSinkIffNotNone ==
    \A c \in 1..Len(objs) :
        objs[c].done
        => /\ HasSink(c, "console")
           /\ HasSink(c, "file") <=> objs[c].log_dir # None

\* C6 amended: a constructed object has a console sink, and has a file
\* sink if and only if its directory is neither None nor the empty string.
C6_FileSinkIffDirectory ==
    \A c \in 1..Len(objs) :
        objs[c].done
        => /\ Cardinality(SinksOf(c, "console")) = 1
           /\ HasSink(c, "file") <=> (objs[c].log_dir # None /\ objs[c].log_dir # "")
           /\ Cardinality(SinksOf(c, "file")) <= 1

\* an object constructed with the empty string, and one with a directory
C6_Witness ==
    \E c, d \in 1..Len(objs) :
        /\ objs[c].done /\ objs[c].log_dir = ""
        /\ HasSink(c, "console") /\ ~HasSink(c, "file")
        /\ objs[d].done /\ HasSink(d, "file")

\* C7: the hook slot holds one callback, the handler of the object
\* constructed last (a construction that raised included); a hook call is
\* run by that object alone and logs through its logger only.
C7_LastObjectOwnsHook ==
    /\ excepthook = Len(objs)
    /\ lastOp = "hook"
       => /\ handledBy = objsAtCall
          /\ \A i \in DOMAIN calls : calls[i].name = objs[objsAtCall].root_name
          /\ \A i \in DOMAIN stderr :
                i > Len(stderr) - Len(calls)
                => stderr[i].line.name = objs[objsAtCall].root_name

\* two objects of different names, then an uncaught exception: the second
\* object's handler logged it, through the second logger
C7_Witness ==
    /\ Len(objs) = 2
    /\ objs[1].root_name # objs[2].root_name
    /\ lastOp = "hook"
    /\ handledBy = 2
    /\ Len(stderr) = Len(calls)
    /\ \A i \in DOMAIN stderr : stderr[i].by = <<2, "console">>

\* a step that is a construction that raised
FailedConstruct == lastOp' = "construct" /\ ops' # ops /\ raised' = "OSError"

\* the logger of the object the step constructed
NewName == objs'[Len(objs')].root_name

\* C10 as stated: a construction that raises attaches no file sink, and
\* the console sink it attached is the only change it leaves in the
\* logging state.
C10_OnlyConsoleSinkLeft ==
    [][ FailedConstruct
        => /\ ~objs'[Len(objs')].done
           /\ loggers' = [loggers EXCEPT ![NewName].handlers =
                             Append(@, console_handler(Len(objs'), objs'[Len(objs')]))]
           /\ excepthook' = excepthook
           /\ warningsCaptured' = warningsCaptured
           /\ stderr' = stderr
           /\ files' = files
      ]_vars

\* C10 amended: a construction that raises attaches no file sink and
\* writes nothing; it leaves behind the console sink it attached, the
\* logger's level set to DEBUG, warnings captured, and the hook slot
\* holding the failed object's handler; on disk, at most the directory it
\* was given has been created.
C10_ConsoleSinkAndHookLeft ==
    [][ FailedConstruct
        => LET self == Len(objs') IN
           /\ ~objs'[self].done
           /\ loggers' = [loggers EXCEPT ![NewName] =
                             [level |-> "DEBUG",
                              handlers |-> Append(@.handlers,
                                  [kind |-> "console", owner |-> self,
                                   level |-> objs'[self].console_log_level,
                                   fmt |-> objs'[self].console_logfmt,
                                   datefmt |-> objs'[self].console_datefmt,
                                   path |-> StderrPath])]]
           /\ excepthook' = self
           /\ warningsCaptured'
           /\ stderr' = stderr
           /\ files' = files
           /\ dirs \subseteq dirs'
           /\ dirs' \subseteq dirs \cup {objs'[self].log_dir}
      ]_vars

\* a second construction raised: the hook is its handler, and its logger
\* has its console sink and no file sink
C10_Witness ==
    /\ lastOp = "construct"
    /\ raised = "OSError"
    /\ Len(objs) = 2
    /\ objs[1].done
    /\ ~objs[2].done
    /\ excepthook = 2
    /\ SinksOf(2, "console") # {}
    /\ SinksOf(2, "file") = {}

====
